---- MODULE Spec2Model ----
(***************************************************************************)
(* Model of src/main.py: AudioContentModerator.                            *)
(*                                                                         *)
(* One run of main(): the transcriber yields a word timeline, the scanner  *)
(* (_detect_profanity) keeps the flagged words, _replace_profanity sorts   *)
(* the list in place and splices the replacement sound over every flagged  *)
(* interval of the working audio, process_audio returns the audio and the  *)
(* list, and save_report renders the list.                                 *)
(*                                                                         *)
(* Time stamps are exact multiples of 1/TicksPerMs millisecond ("ticks");  *)
(* an audio segment is the sequence of its one-millisecond samples, as     *)
(* pydub's AudioSegment is indexed in milliseconds.                        *)
(***************************************************************************)
EXTENDS Integers, Sequences, FiniteSets

\* ---- bounds of the model ------------------------------------------------
TicksPerMs == 4
AudioMs == 4
MaxStartMs == 2
MaxWords == 2
MaxFineMs == 2

\* ---- program constants ---------------------------------------------------
FadeMs == 20

\* ---- input sets ----------------------------------------------------------
ClipLens == {1, 3}
DursMs == {-1, 0, 1, 2}
RawTexts == {" Damn", "hello "}

VARIABLES
    pc,                   \* position in main() / process_audio
    replacement_sound,    \* self.replacement_sound
    original_audio,       \* the audio as loaded from the input file
    audio,                \* local `audio` of _replace_profanity
    text_segments,        \* result of _transcribe_audio
    profanity_instances,  \* the one list object shared by scanner, splicer, caller
    detected,             \* the list as _detect_profanity returned it (history)
    idx,                  \* position of the for loop of _replace_profanity
    start_ms,
    end_ms,
    duration,
    adjusted_replacement,
    fade_window,          \* the windows handed to fade_in / fade_out
    emitted,              \* lengths of the replacements inserted so far (history)
    processed_audio,      \* audio returned by process_audio
    report                \* the lines save_report wrote

vars == <<pc, replacement_sound, original_audio, audio, text_segments,
          profanity_instances, detected, idx, start_ms, end_ms, duration,
          adjusted_replacement, fade_window, emitted, processed_audio, report>>

Min(a, b) == IF a < b THEN a ELSE b
Max(a, b) == IF a > b THEN a ELSE b

\* ---- audio segments (pydub.AudioSegment as used by main.py) --------------
Sample(src, pos) == [src |-> src, pos |-> pos, fin |-> FALSE, fout |-> FALSE]
MakeSegment(src, n) == [i \in 1..n |-> Sample(src, i)]

\* a negative millisecond position counts from the end of the segment
ParsePosition(len, val) == IF val < 0 THEN len + val ELSE val
\* Python's slice of the underlying data: negative wraps once, then clips
DataIndex(len, k) == IF k < 0 THEN Max(len + k, 0) ELSE Min(k, len)

\* seg[start:stop]
GetSlice(seg, start, stop) ==
    LET len == Len(seg)
        s == DataIndex(len, ParsePosition(len, Min(start, len)))
        e == DataIndex(len, ParsePosition(len, Min(stop, len)))
    IN IF e > s THEN SubSeq(seg, s + 1, e) ELSE <<>>

\* seg[:n]
SliceTo(seg, n) == GetSlice(seg, 0, n)
\* seg[n:]
SliceFrom(seg, n) == GetSlice(seg, n, Len(seg))

\* seg.fade_in(d): gain ramp over [0, d); the length is kept
FadeIn(seg, d) ==
    [i \in 1..Len(seg) |-> IF i <= d THEN [seg[i] EXCEPT !.fin = TRUE] ELSE seg[i]]
\* seg.fade_out(d): gain ramp over [len - d, len); the length is kept
FadeOut(seg, d) ==
    [i \in 1..Len(seg) |->
        IF i > Len(seg) - d THEN [seg[i] EXCEPT !.fout = TRUE] ELSE seg[i]]

\* ---- time conversion -----------------------------------------------------
RoundMs(t) == (2 * t + TicksPerMs) \div (2 * TicksPerMs)
\* int(t * 1000): truncation toward zero
ToMs(t) == IF t >= 0 THEN t \div TicksPerMs ELSE -((-t) \div TicksPerMs)

\* ---- lexicon (better_profanity) ------------------------------------------
ContainsProfanity(word) == word \in {"damn"}
Censor(word) == IF ContainsProfanity(word) THEN "****" ELSE word

\* word_info["word"].strip().lower()
Normalize(raw) ==
    CASE raw = " Damn" -> "damn"
      [] raw = "hello " -> "hello"
      [] OTHER -> raw

\* ---- transcriber output --------------------------------------------------
WordInfo(raw, s, e) == [word |-> raw, start |-> s, end |-> e]

\* words on whole milliseconds
CoarseWords ==
    {w \in {WordInfo(r, TicksPerMs * s, TicksPerMs * (s + d)) :
                r \in RawTexts, s \in 0..MaxStartMs, d \in DursMs} : w.end >= 0}
\* words on every tick
FineWords ==
    {WordInfo(r, s, e) :
        r \in RawTexts, s \in 0..(TicksPerMs * MaxFineMs), e \in 0..(TicksPerMs * MaxFineMs)}

RECURSIVE SeqsOfLen(_, _)
SeqsOfLen(S, n) ==
    IF n = 0 THEN {<<>>}
    ELSE {Append(q, x) : q \in SeqsOfLen(S, n - 1), x \in S}

Timelines ==
    UNION {SeqsOfLen(CoarseWords, n) : n \in 0..MaxWords}
        \cup {<<w>> : w \in FineWords}

\* the flattening loop of _transcribe_audio
Flatten(words) ==
    [i \in 1..Len(words) |->
        [word |-> Normalize(words[i].word),
         start_time |-> words[i].start,
         end_time |-> words[i].end]]

\* ---- _detect_profanity ---------------------------------------------------
InstanceOfMut(segment) ==
    [word |-> segment.word,
     start_time |-> segment.start_time,
     end_time |-> segment.start_time,
     censored_text |-> Censor(segment.word)]

InstanceOf(segment) ==
    [word |-> segment.word,
     start_time |-> segment.start_time,
     end_time |-> segment.end_time,
     censored_text |-> Censor(segment.word)]

RECURSIVE DetectLoop(_, _, _)
DetectLoop(segs, i, acc) ==
    IF i > Len(segs) THEN acc
    ELSE DetectLoop(segs, i + 1,
            IF ContainsProfanity(segs[i].word)
            THEN Append(acc, InstanceOf(segs[i]))
            ELSE acc)

\* ---- list.sort(key=lambda x: x['start_time']) ----------------------------
\* stable: x goes after every element whose key is <= its own
RECURSIVE InsertByStart(_, _)
InsertByStart(x, s) ==
    IF s = <<>> THEN <<x>>
    ELSE IF Head(s).start_time <= x.start_time
         THEN <<Head(s)>> \o InsertByStart(x, Tail(s))
         ELSE <<x>> \o s

RECURSIVE SortLoop(_, _, _)
SortLoop(l, i, acc) ==
    IF i > Len(l) THEN acc ELSE SortLoop(l, i + 1, InsertByStart(l[i], acc))

SortByStartMut(l) == l
SortByStart(l) == SortLoop(l, 1, <<>>)

\* ---- save_report ---------------------------------------------------------
Line(tag, n, text, from, to) ==
    [tag |-> tag, n |-> n, text |-> text, from |-> from, to |-> to]
Blank == Line("blank", 0, "", 0, 0)

\* f"{t:.2f}": seconds with two decimals, as a number of centiseconds
Fmt2(t) == (2 * t + 10 * TicksPerMs) \div (20 * TicksPerMs)

ReportHeader ==
    <<Line("Audio Content Moderation Report", 0, "", 0, 0),
      Line("==============================", 0, "", 0, 0),
      Blank>>

NoProfanityLine == Line("No profanity detected in the audio.", 0, "", 0, 0)

CountLines(n) == <<Line("Total instances found:", n, "", 0, 0), Blank>>

InstanceBlockMut(k, instance) ==
    <<Line("Instance", k - 1, "", 0, 0),
      Line("Word:", 0, instance.word, 0, 0),
      Line("Censored Version:", 0, instance.censored_text, 0, 0),
      Line("Timestamp:", 0, "", Fmt2(instance.start_time), Fmt2(instance.end_time)),
      Line("--------------------", 0, "", 0, 0)>>

InstanceBlock(k, instance) ==
    <<Line("Instance", k, "", 0, 0),
      Line("Word:", 0, instance.word, 0, 0),
      Line("Censored Version:", 0, instance.censored_text, 0, 0),
      Line("Timestamp:", 0, "", Fmt2(instance.start_time), Fmt2(instance.end_time)),
      Line("--------------------", 0, "", 0, 0)>>

RECURSIVE ReportBlocks(_, _)
ReportBlocks(l, k) ==
    IF k > Len(l) THEN <<>> ELSE InstanceBlock(k, l[k]) \o ReportBlocks(l, k + 1)

ReportText(l) ==
    IF l = <<>> THEN ReportHeader \o <<NoProfanityLine>>
    ELSE ReportHeader \o CountLines(Len(l)) \o ReportBlocks(l, 1)

\* ---- the run -------------------------------------------------------------
Init ==
    /\ pc = "transcribe"
    /\ \E n \in ClipLens : replacement_sound = MakeSegment("beep", n)
    /\ original_audio = <<>>
    /\ audio = <<>>
    /\ text_segments = <<>>
    /\ profanity_instances = <<>>
    /\ detected = <<>>
    /\ idx = 0
    /\ start_ms = 0
    /\ end_ms = 0
    /\ duration = 0
    /\ adjusted_replacement = <<>>
    /\ fade_window = [in |-> 0, out |-> 0]
    /\ emitted = <<>>
    /\ processed_audio = <<>>
    /\ report = <<>>

\* process_audio: the audio is loaded and transcribed
TranscribeAudio ==
    /\ pc = "transcribe"
    /\ original_audio' = MakeSegment("orig", AudioMs)
    /\ \E words \in Timelines : text_segments' = Flatten(words)
    /\ pc' = "detect"
    /\ UNCHANGED <<replacement_sound, audio, profanity_instances, detected, idx,
                   start_ms, end_ms, duration, adjusted_replacement, fade_window,
                   emitted, processed_audio, report>>

DetectProfanity ==
    /\ pc = "detect"
    /\ profanity_instances' = DetectLoop(text_segments, 1, <<>>)
    /\ detected' = profanity_instances'
    /\ pc' = "sort"
    /\ UNCHANGED <<replacement_sound, original_audio, audio, text_segments, idx,
                   start_ms, end_ms, duration, adjusted_replacement, fade_window,
                   emitted, processed_audio, report>>

\* _replace_profanity is entered with the loaded audio and sorts the list in place
ReplaceSort ==
    /\ pc = "sort"
    /\ audio' = original_audio
    /\ profanity_instances' = SortByStart(profanity_instances)
    /\ idx' = 1
    /\ pc' = "splice"
    /\ UNCHANGED <<replacement_sound, original_audio, text_segments, detected,
                   start_ms, end_ms, duration, adjusted_replacement, fade_window,
                   emitted, processed_audio, report>>

\* one iteration of the for loop
ReplaceStep ==
    /\ pc = "splice"
    /\ idx <= Len(profanity_instances)
    /\ LET instance == profanity_instances[idx]
           s == ToMs(instance.start_time)
           e == ToMs(instance.end_time)
           d == e - s
           taken == SliceTo(replacement_sound, d)
           faded == FadeOut(FadeIn(taken, FadeMs), FadeMs)
       IN /\ start_ms' = s
          /\ end_ms' = e
          /\ duration' = d
          /\ adjusted_replacement' = faded
          /\ fade_window' = [in |-> FadeMs, out |-> FadeMs]
          /\ audio' = SliceTo(audio, s) \o faded \o SliceFrom(audio, e)
          /\ emitted' = Append(emitted, Len(faded))
    /\ idx' = idx + 1
    /\ UNCHANGED <<pc, replacement_sound, original_audio, text_segments,
                   profanity_instances, detected, processed_audio, report>>

ReplaceReturnMut ==
    /\ pc = "splice"
    /\ idx > Len(profanity_instances)
    /\ processed_audio' = SliceTo(audio, Len(audio) - 1)
    /\ pc' = "report"
    /\ UNCHANGED <<replacement_sound, original_audio, audio, text_segments,
                   profanity_instances, detected, idx, start_ms, end_ms, duration,
                   adjusted_replacement, fade_window, emitted, report>>

\* the loop is over: _replace_profanity and process_audio return
ReplaceReturn ==
    /\ pc = "splice"
    /\ idx > Len(profanity_instances)
    /\ processed_audio' = audio
    /\ pc' = "report"
    /\ UNCHANGED <<replacement_sound, original_audio, audio, text_segments,
                   profanity_instances, detected, idx, start_ms, end_ms, duration,
                   adjusted_replacement, fade_window, emitted, report>>

SaveReport ==
    /\ pc = "report"
    /\ report' = ReportText(profanity_instances)
    /\ pc' = "done"
    /\ UNCHANGED <<replacement_sound, original_audio, audio, text_segments,
                   profanity_instances, detected, idx, start_ms, end_ms, duration,
                   adjusted_replacement, fade_window, emitted, processed_audio>>

Next ==
    \/ TranscribeAudio
    \/ DetectProfanity
    \/ ReplaceSort
    \/ ReplaceStep
    \/ ReplaceReturn
    \/ SaveReport

Spec == Init /\ [][Next]_vars

\* ---- notions the properties are stated in --------------------------------
Returned == pc \in {"report", "done"}
\* the loop has just spliced interval idx - 1
Spliced == pc = "splice" /\ idx > 1
N == Len(profanity_instances)
\* interval i of the list, in exact ticks
StartT(i) == profanity_instances[i].start_time
EndT(i) == profanity_instances[i].end_time
\* milliseconds that contain a tick count, independent of the conversion used
FloorMs(t) == CHOOSE m \in 0..t : m * TicksPerMs <= t /\ t < (m + 1) * TicksPerMs
ClipMs == Len(replacement_sound)

RECURSIVE SumOver(_, _)
SumOver(f, n) == IF n = 0 THEN 0 ELSE f[n] + SumOver(f, n - 1)

\* the flagged intervals lie inside the audio and do not overlap each other
NonOverlapInside ==
    /\ \A i \in 1..N : /\ StartT(i) <= EndT(i)
                       /\ FloorMs(EndT(i)) <= Len(original_audio)
    /\ \A i \in 1..(N - 1) : FloorMs(EndT(i)) <= FloorMs(StartT(i + 1))

IntervalMs == [i \in 1..N |-> FloorMs(EndT(i)) - FloorMs(StartT(i))]
UsedMs == [i \in 1..N |-> Min(IntervalMs[i], ClipMs)]

\* positions of the original samples of a segment, in the order they occur
OrigPositions(seg) ==
    LET o == SelectSeq(seg, LAMBDA x : x.src = "orig")
    IN [i \in 1..Len(o) |-> o[i].pos]
\* original sample p covers [p - 1, p) ms
InFlagged(p) ==
    \E i \in 1..N : FloorMs(StartT(i)) <= p - 1 /\ p - 1 < FloorMs(EndT(i))
Untouched ==
    SelectSeq([p \in 1..Len(original_audio) |-> p], LAMBDA p : ~InFlagged(p))
BeepCount(seg) == Len(SelectSeq(seg, LAMBDA x : x.src = "beep"))

\* the flagged words of the timeline, by position
FlaggedIdx == {i \in 1..Len(text_segments) : ContainsProfanity(text_segments[i].word)}
NthFlagged(k) ==
    CHOOSE i \in FlaggedIdx : Cardinality({j \in FlaggedIdx : j <= i}) = k

\* C1: for flagged intervals inside the audio that do not overlap, the
\* returned audio lasts original - sum(interval lengths) + sum(min(interval
\* length, clip length)).
C1_DurationFormula ==
    (Returned /\ NonOverlapInside) =>
        Len(processed_audio) =
            Len(original_audio) - SumOver(IntervalMs, N) + SumOver(UsedMs, N)

\* C2: for two or more time-sorted non-overlapping intervals every interval
\* is cut at its position in the original audio: the original samples of the
\* output are exactly the samples outside all flagged intervals, once each
\* and in original order.
C2_NoIndexDrift ==
    (Returned /\ N >= 2 /\ NonOverlapInside) =>
        OrigPositions(processed_audio) = Untouched

\* C3: with an empty list of flagged intervals the splice step returns the
\* original audio, sample for sample.
C3_EmptyIsIdentity ==
    (Returned /\ detected = <<>>) => processed_audio = original_audio

C3_Witness ==
    /\ pc = "report"
    /\ detected = <<>>
    /\ text_segments # <<>>
    /\ processed_audio # <<>>

\* C4: the list process_audio returns is ordered by start time, is a
\* permutation of the scanner's output and keeps intervals of equal start in
\* transcription order.
C4_ReturnedListSorted ==
    Returned =>
        /\ \A i \in 1..(N - 1) : StartT(i) <= StartT(i + 1)
        /\ Len(profanity_instances) = Len(detected)
        /\ \A k \in 1..Len(detected) :
              LET SameStart(x) == x.start_time = detected[k].start_time
              IN SelectSeq(profanity_instances, SameStart)
                    = SelectSeq(detected, SameStart)

C4_Witness ==
    /\ pc = "report"
    /\ Len(detected) >= 2
    /\ detected[1].start_time > detected[2].start_time

\* C5: when a later interval overlaps or touches the earlier one, its start
\* is clamped to the cursor left by the earlier interval: the replacement
\* inserted for it is at most end_ms - max(start_ms, emit_from) long and the
\* replacement already emitted for the earlier interval is not cut.
C5_ClampToCursor ==
    (Spliced /\ idx > 2) =>
        LET emit_from == FloorMs(EndT(idx - 2))
        IN (start_ms <= emit_from /\ FloorMs(StartT(idx - 2)) <= emit_from) =>
              /\ Len(adjusted_replacement) <= Max(end_ms - Max(start_ms, emit_from), 0)
              /\ BeepCount(audio) = SumOver(emitted, Len(emitted))

\* C6: an interval whose end_ms <= start_ms gets a replacement of length zero.
C6_DegenerateIsEmpty ==
    (Spliced /\ end_ms <= start_ms) => Len(adjusted_replacement) = 0

\* C7: the scanner returns one interval per flagged word and none for any
\* other word, in input order, each with the word's text, its censored
\* rendering and its unchanged start and end; the timeline is not modified.
C7_ScannerExact ==
    /\ [](pc \notin {"transcribe", "detect"} =>
            /\ Len(detected) = Cardinality(FlaggedIdx)
            /\ \A k \in 1..Len(detected) :
                  LET w == text_segments[NthFlagged(k)]
                  IN /\ detected[k].word = w.word
                     /\ detected[k].censored_text = Censor(w.word)
                     /\ detected[k].start_time = w.start_time
                     /\ detected[k].end_time = w.end_time)
    /\ [][pc = "detect" => text_segments' = text_segments]_vars

C7_Witness ==
    /\ pc = "sort"
    /\ Len(text_segments) = 2
    /\ Len(detected) = 1
    /\ ~ContainsProfanity(text_segments[1].word)
    /\ detected[1].end_time # detected[1].start_time

C9_FadeBounded ==
    Spliced =>
        /\ fade_window.in <= Len(adjusted_replacement)
        /\ fade_window.out <= Len(adjusted_replacement)

\* C10 (as stated): start_ms and end_ms are the time stamps rounded to the
\* nearest millisecond.
C10_RoundsToNearest ==
    Spliced =>
        /\ 2 * StartT(idx - 1) - TicksPerMs <= 2 * TicksPerMs * start_ms
        /\ 2 * TicksPerMs * start_ms <= 2 * StartT(idx - 1) + TicksPerMs
        /\ 2 * EndT(idx - 1) - TicksPerMs <= 2 * TicksPerMs * end_ms
        /\ 2 * TicksPerMs * end_ms <= 2 * EndT(idx - 1) + TicksPerMs

\* C10 (amended): start_ms and end_ms are the time stamps truncated to whole
\* milliseconds: the largest millisecond count not above the time stamp.
C10_Truncates ==
    Spliced =>
        /\ TicksPerMs * start_ms <= StartT(idx - 1)
        /\ StartT(idx - 1) < TicksPerMs * (start_ms + 1)
        /\ TicksPerMs * end_ms <= EndT(idx - 1)
        /\ EndT(idx - 1) < TicksPerMs * (end_ms + 1)

C10_Witness ==
    /\ Spliced
    /\ 2 * (StartT(idx - 1) % TicksPerMs) > TicksPerMs
    /\ StartT(idx - 1) = TicksPerMs * start_ms + (StartT(idx - 1) % TicksPerMs)

====
